---- MODULE Spec2Model ----
(***************************************************************************)
(* Model of the text-chunking services of n8n-services.                    *)
(*                                                                         *)
(*  Spec    : api/text_splitter (utils.py, chatGPT-refactory.py,           *)
(*            Claude-refactor.py): construction, the chunk assembler loop, *)
(*            the overlap weaver and the /split route's oversized count.   *)
(*  SpecService : one TextSplitterService.split_text invocation of        *)
(*            api/text_splitter_langchain inside time_limit and            *)
(*            memory_limit, with position tracking, joining and the        *)
(*            integrity validator.                                         *)
(*  SpecGuard : two such invocations whose guard steps interleave.         *)
(*  SpecText : split() of api/text_splitter on texts: the segmenter of    *)
(*            each strategy, then the assembler and the weaver, and        *)
(*            further split() calls on the same instance.                  *)
(*  SpecTracker : _get_chunk_positions on small texts and chunk lists.    *)
(*  SpecCache : the lru_cache of Claude-refactor.py under a run of        *)
(*            requests that fills it.                                      *)
(*  SpecDocx : one request to the /convert route of api/docx2text.        *)
(*                                                                         *)
(* A string is a sequence of characters; a character is a one-letter TLA+  *)
(* string.  len() of a Python str is Len of the sequence.                  *)
(***************************************************************************)
EXTENDS Integers, Sequences, FiniteSets, TLC

\* ------------------------------------------------------------------ bounds
MaxUnits == 3        \* units handed to the assembler by one split call
MaxUnitLen == 3      \* characters of the longest unit
MaxChunkSize == 3    \* largest small chunk_size tried

\* ------------------------------------------------------- program constants
MIN_CHUNK_SIZE == 10

\* ------------------------------------------------------------ pure helpers
NL == "\n"
SP == " "

Min(a, b) == IF a < b THEN a ELSE b
Max(a, b) == IF a > b THEN a ELSE b

\* Python s[k:] for any integer k (negative k counts from the end).
PySliceFrom(s, k) ==
    LET start == IF k < 0 THEN Max(Len(s) + k, 0) ELSE Min(k, Len(s))
    IN  SubSeq(s, start + 1, Len(s))

\* sep.join(parts)
RECURSIVE Join(_, _)
Join(parts, sep) ==
    IF parts = <<>> THEN <<>>
    ELSE IF Len(parts) = 1 THEN parts[1]
    ELSE parts[1] \o <<sep>> \o Join(Tail(parts), sep)

\* The three TextSplitter variants of api/text_splitter.
Variants == {"utils", "chatgpt", "claude"}

\* Separator used by _create_chunks when it joins the units of a chunk.
Separator(v) == IF v = "utils" THEN NL ELSE SP

\* validate_params: TRUE when the constructor raises ValueError.
ValidateParamsRaises(v, cs, os) ==
    CASE v = "utils"   -> cs <= 0 \/ os < 0 \/ os >= cs
      [] v = "chatgpt" -> cs < MIN_CHUNK_SIZE \/ os < 0 \/ os >= cs
      [] OTHER         -> FALSE

\* A weaver that slices the overlap off the front of the previous chunk.
OverlapPrefixFront(prev, os) == SubSeq(prev, 1, Min(Max(os, 0), Len(prev)))

\* The overlap prefix taken from the previous chunk: chunks[i-1][-overlap_size:]
OverlapPrefix(prev, os) == PySliceFrom(prev, 0 - os)

\* A weaver without the guards for the first chunk: chunks[i-1] wraps to the
\* last chunk when i is 0.
AddOverlapWraps(cks, os) ==
    [i \in 1..Len(cks) |->
        OverlapPrefix(cks[IF i > 1 THEN i - 1 ELSE Len(cks)], os) \o <<NL>> \o cks[i]]

\* _add_overlap
AddOverlap(cks, os) ==
    IF Len(cks) <= 1 THEN cks
    ELSE [i \in 1..Len(cks) |->
            IF i > 1 THEN OverlapPrefix(cks[i-1], os) \o <<NL>> \o cks[i]
            ELSE cks[i]]

\* An assembler that sends the boundary-equal unit to a new chunk.
FitsStrict(length, unit_length, cs) == length + unit_length < cs

\* An assembler that counts the separator it will insert.
FitsWithSeparator(length, unit_length, cs) ==
    IF length = 0 THEN unit_length <= cs ELSE length + 1 + unit_length <= cs

\* the test `current_length + unit_length <= self.chunk_size`
Fits(length, unit_length, cs) == length + unit_length <= cs

\* sum(1 for chunk in chunks if len(chunk) > chunk_size)
CountOversized(res, cs) == Cardinality({i \in 1..Len(res) : Len(res[i]) > cs})

\* ------------------------------------------------------------- input sets
Letters == <<"a", "b", "c">>
Unit(n) == [i \in 1..n |-> Letters[((i - 1) % 3) + 1]]
UnitPool == {Unit(n) : n \in 1..MaxUnitLen}
UnitSeqs == UNION {[1..k -> UnitPool] : k \in 1..MaxUnits}
ChunkSizes == (0..MaxChunkSize) \cup {MIN_CHUNK_SIZE - 1, MIN_CHUNK_SIZE}
OverlapSizes == (0 - 1)..MaxChunkSize


\* ---------------------------------------- api/text_splitter_langchain helpers
\* Characters of the service's texts: "a" is a one-byte letter, "E" stands for
\* a letter that UTF-8 encodes in two bytes, NL is the newline.
LCAlphabet == {"a", "E", NL}
ByteWidth(c) == IF c = "E" THEN 2 ELSE 1

\* len(s.encode('utf-8'))
RECURSIVE Utf8Len(_)
Utf8Len(s) == IF s = <<>> THEN 0 ELSE ByteWidth(Head(s)) + Utf8Len(Tail(s))

IsSpace(c) == c \in {NL, SP}

\* bool(s.strip())
NonBlank(s) == \E k \in 1..Len(s) : ~IsSpace(s[k])

\* Python s[a:b] for 0 <= a, 0 <= b (both clipped to len(s))
PySlice(s, a, b) == SubSeq(s, Min(a, Len(s)) + 1, Min(b, Len(s)))

\* A search that reports the last match, as text.rfind(sub, start) does.
FindLast(text, sub, start) ==
    LET hits == {k \in start..(Len(text) - Len(sub)) :
                    SubSeq(text, k + 1, k + Len(sub)) = sub}
    IN  IF hits = {} THEN 0 - 1
        ELSE CHOOSE k \in hits : \A m \in hits : k >= m

\* Python text.find(sub, start): 0-based index of the first match at or after
\* start, -1 when there is none
Find(text, sub, start) ==
    LET hits == {k \in start..(Len(text) - Len(sub)) :
                    SubSeq(text, k + 1, k + Len(sub)) = sub}
    IN  IF hits = {} THEN 0 - 1
        ELSE CHOOSE k \in hits : \A m \in hits : k <= m

\* [chunk for chunk in chunks if chunk.strip()]
DropBlank(cks) == SelectSeq(cks, NonBlank)

\* A tracker that searches every chunk from the start of the text.
RECURSIVE PositionsFromRestart(_, _, _)
PositionsFromRestart(text, cks, start_pos) ==
    IF cks = <<>> THEN <<>>
    ELSE LET chunk == Head(cks)
             chunk_start == Find(text, chunk, 0)
         IN  IF chunk_start # 0 - 1
             THEN <<[start |-> chunk_start, end |-> chunk_start + Len(chunk)]>>
                  \o PositionsFromRestart(text, Tail(cks), chunk_start + Len(chunk))
             ELSE <<[start |-> start_pos, end |-> start_pos + Len(chunk)]>>
                  \o PositionsFromRestart(text, Tail(cks), start_pos + Len(chunk))

\* _get_chunk_positions, the loop from cursor start_pos on
RECURSIVE PositionsFrom(_, _, _)
PositionsFrom(text, cks, start_pos) ==
    IF cks = <<>> THEN <<>>
    ELSE LET chunk == Head(cks)
             chunk_start == Find(text, chunk, start_pos)
         IN  IF chunk_start # 0 - 1
             THEN <<[start |-> chunk_start, end |-> chunk_start + Len(chunk)]>>
                  \o PositionsFrom(text, Tail(cks), chunk_start + Len(chunk))
             ELSE <<[start |-> start_pos, end |-> start_pos + Len(chunk)]>>
                  \o PositionsFrom(text, Tail(cks), start_pos + Len(chunk))

GetChunkPositions(text, cks) == PositionsFrom(text, cks, 0)

\* ChunkInfo(text=..., size=..., start_position=..., end_position=...)
ChunkInfo(t, sz, st, en) ==
    [text |-> t, size |-> sz, start_position |-> st, end_position |-> en]

\* the validators of ChunkInfo: TRUE when construction raises
ChunkInfoRaises(r) ==
    \/ ~NonBlank(r.text)
    \/ Utf8Len(r.text) # r.size
    \/ r.end_position <= r.start_position

\* A join that closes a record at the end of the chunk that did not fit.
RECURSIVE JoinFromStaleEnd(_, _, _, _, _, _, _)
JoinFromStaleEnd(cks, positions, cs, i, current_chunk, current_start, joined) ==
    IF i > Len(cks)
    THEN IF current_chunk # <<>>
         THEN Append(joined, ChunkInfo(current_chunk, Utf8Len(current_chunk),
                                       current_start, positions[Len(positions)].end))
         ELSE joined
    ELSE IF current_chunk = <<>>
    THEN JoinFromStaleEnd(cks, positions, cs, i + 1, cks[i], positions[i].start,
                          joined)
    ELSE IF Utf8Len(current_chunk \o <<NL>> \o cks[i]) <= cs
    THEN JoinFromStaleEnd(cks, positions, cs, i + 1,
                          current_chunk \o <<NL>> \o cks[i], current_start, joined)
    ELSE JoinFromStaleEnd(cks, positions, cs, i + 1, cks[i], positions[i].start,
                  Append(joined, ChunkInfo(current_chunk, Utf8Len(current_chunk),
                                           current_start, positions[i].end)))

\* _join_small_chunks, the loop from index i (1-based) on
RECURSIVE JoinFrom(_, _, _, _, _, _, _)
JoinFrom(cks, positions, cs, i, current_chunk, current_start, joined) ==
    IF i > Len(cks)
    THEN IF current_chunk # <<>>
         THEN Append(joined, ChunkInfo(current_chunk, Utf8Len(current_chunk),
                                       current_start, positions[Len(positions)].end))
         ELSE joined
    ELSE IF current_chunk = <<>>
    THEN JoinFrom(cks, positions, cs, i + 1, cks[i], positions[i].start, joined)
    ELSE IF Utf8Len(current_chunk \o <<NL>> \o cks[i]) <= cs
    THEN JoinFrom(cks, positions, cs, i + 1, current_chunk \o <<NL>> \o cks[i],
                  current_start, joined)
    ELSE JoinFrom(cks, positions, cs, i + 1, cks[i], positions[i].start,
                  Append(joined, ChunkInfo(current_chunk, Utf8Len(current_chunk),
                                           current_start, positions[i-1].end)))

JoinSmallChunks(cks, positions, cs) == JoinFrom(cks, positions, cs, 1, <<>>, 0, <<>>)

\* validate_chunk_integrity, the loop from record k on; the answer is "ok" or
\* the rule whose ValueError is raised
RECURSIVE ValidateFrom(_, _, _, _, _)
ValidateFrom(text, recs, k, last_position, reconstructed_bytes) ==
    IF k > Len(recs)
    THEN IF Utf8Len(text) # reconstructed_bytes THEN "coverage" ELSE "ok"
    ELSE LET chunk == recs[k] IN
         IF chunk.start_position < last_position THEN "overlap"
         ELSE IF chunk.start_position > last_position THEN "gap"
         ELSE IF PySlice(text, chunk.start_position, chunk.end_position) # chunk.text
         THEN "mismatch"
         ELSE ValidateFrom(text, recs, k + 1, chunk.end_position,
                           reconstructed_bytes + Utf8Len(chunk.text))

\* A validator that forgets the final coverage comparison.
ValidateNoCoverage(text, recs) ==
    LET v == ValidateFrom(text, recs, 1, 0, 0)
    IN  IF v = "coverage" THEN "ok" ELSE v

ValidateChunkIntegrity(text, recs) == ValidateFrom(text, recs, 1, 0, 0)

\* The body of the two `with` blocks of split_text, for the chunk list `raw`
\* the LangChain splitter returned: [fault, records], fault "none" on return.
SplitBody(text, raw, join_chunks, cs) ==
    LET cks == DropBlank(raw) IN
    IF cks = <<>> THEN [fault |-> "no_chunks", records |-> <<>>]
    ELSE
    LET positions == GetChunkPositions(text, cks)
        plain == [k \in 1..Len(cks) |->
                    ChunkInfo(cks[k], Utf8Len(cks[k]),
                              positions[k].start, positions[k].end)]
        chunk_info_list == IF join_chunks THEN JoinSmallChunks(cks, positions, cs)
                           ELSE plain
    IN  IF \E k \in 1..Len(plain) : ChunkInfoRaises(plain[k])
        THEN [fault |-> "chunk_info", records |-> <<>>]
        ELSE IF \E k \in 1..Len(chunk_info_list) : ChunkInfoRaises(chunk_info_list[k])
        THEN [fault |-> "chunk_info", records |-> <<>>]
        ELSE IF ValidateChunkIntegrity(text, chunk_info_list) # "ok"
        THEN [fault |-> "validation", records |-> <<>>]
        ELSE [fault |-> "none", records |-> chunk_info_list]

\* ---- resource limits (in GB); RLIM_INFINITY is the value of "no limit"
RLIM_INFINITY == -1
max_memory_gb == 4

\* a <= b on limits
LimitLeq(a, b) == b = RLIM_INFINITY \/ (a # RLIM_INFINITY /\ a <= b)

\* resource.setrlimit(RLIMIT_AS, (soft, hard)) raises ValueError when the soft
\* limit exceeds the hard limit
SetrlimitRaises(soft, hard) == ~LimitLeq(soft, hard)

\* ---- langchain input sets
MaxTextLen == 3      \* characters of the longest request text
MaxChunks == 2       \* chunks the LangChain splitter returns
MaxLCChunkSize == 3  \* largest chunk_size of the service settings

Texts == UNION {[1..k -> LCAlphabet] : k \in 1..MaxTextLen}
LCChunkSizes == 2..MaxLCChunkSize
Requests == [text : Texts, join_chunks : BOOLEAN, chunk_size : LCChunkSizes]
GuardRequests == { [text |-> <<"a">>, join_chunks |-> FALSE, chunk_size |-> 2],
                   [text |-> <<"a", NL, "a">>, join_chunks |-> TRUE, chunk_size |-> 3] }
Substrings(t) == {SubSeq(t, a, b) : a \in 1..Len(t), b \in 1..Len(t)} \ {<<>>}
\* what splitter.split_text(text) may return: pieces of the text, in any order
SplitterOutputs(t) == UNION {[1..k -> Substrings(t)] : k \in 0..MaxChunks}
SplitterTypes == {"recursive", "character", "token", "bogus"}
PriorLimits == { [soft |-> RLIM_INFINITY, hard |-> RLIM_INFINITY],
                 [soft |-> 8, hard |-> 8],
                 [soft |-> 2, hard |-> 2] }
Invs == {1, 2}
\* the requests a behaviour offers to split_text
RequestsOf(m) == IF m = "guard" THEN GuardRequests ELSE Requests

\* ------------------------------------------------- api/text_splitter: segmenter
\* [A-Z] and [.!?] of the two patterns compiled in TextSplitter.__init__
Uppercase == {"A", "B", "C", "D", "E", "F", "G", "H", "I", "J", "K", "L", "M",
              "N", "O", "P", "Q", "R", "S", "T", "U", "V", "W", "X", "Y", "Z"}
Terminators == {".", "!", "?"}

\* s.strip()
RECURSIVE LStrip(_)
LStrip(s) == IF s # <<>> /\ IsSpace(Head(s)) THEN LStrip(Tail(s)) ELSE s
RECURSIVE RStrip(_)
RStrip(s) ==
    IF s # <<>> /\ IsSpace(s[Len(s)]) THEN RStrip(SubSeq(s, 1, Len(s) - 1)) ELSE s
Strip(s) == RStrip(LStrip(s))

\* sep.join(parts) for a separator of any length
RECURSIVE JoinSeq(_, _)
JoinSeq(parts, sep) ==
    IF parts = <<>> THEN <<>>
    ELSE IF Len(parts) = 1 THEN parts[1]
    ELSE parts[1] \o sep \o JoinSeq(Tail(parts), sep)

\* index of the last character of the whitespace run that starts at p
\* (p - 1 when t[p] is not whitespace): what a greedy \s* or \s+ consumes
RECURSIVE WsRunEnd(_, _)
WsRunEnd(t, p) ==
    IF p <= Len(t) /\ IsSpace(t[p]) THEN WsRunEnd(t, p + 1) ELSE p - 1

\* \n\s*\n tried at p: index of the last character matched, 0 for no match
BlankLineEnd(t, p) ==
    IF t[p] # NL THEN 0
    ELSE LET nls == {q \in (p + 1)..WsRunEnd(t, p + 1) : t[q] = NL}
         IN  IF nls = {} THEN 0
             ELSE CHOOSE q \in nls : \A r \in nls : r <= q

\* (?<=[.!?])\s+(?=[A-Z]) tried at p: index of the last character matched
SentenceEnd(t, p) ==
    LET e == WsRunEnd(t, p)
    IN  IF /\ p > 1
           /\ t[p - 1] \in Terminators
           /\ e >= p
           /\ e < Len(t)
           /\ t[e + 1] \in Uppercase
        THEN e ELSE 0

\* a run of whitespace, the separator of str.split()
WordGapEnd(t, p) == IF IsSpace(t[p]) THEN WsRunEnd(t, p) ELSE 0

\* the literal '\n\n', the separator of str.split('\n\n')
LiteralEnd(t, p) == IF t[p] = NL /\ p < Len(t) /\ t[p + 1] = NL THEN p + 1 ELSE 0

\* the separator patterns: where a match that starts at p ends (0: no match)
MatchEnd(kind, t, p) ==
    CASE kind = "paragraph_pattern" ->
            IF BlankLineEnd(t, p) # 0 THEN BlankLineEnd(t, p) ELSE SentenceEnd(t, p)
      [] kind = "sentence_pattern" -> SentenceEnd(t, p)
      [] kind = "whitespace" -> WordGapEnd(t, p)
      [] OTHER -> LiteralEnd(t, p)

\* pattern.split(text): the pieces between the leftmost non-overlapping matches
RECURSIVE PatternSplit(_, _, _, _)
PatternSplit(kind, t, p, start) ==
    IF p > Len(t) THEN << SubSeq(t, start, Len(t)) >>
    ELSE LET e == MatchEnd(kind, t, p)
         IN  IF e # 0
             THEN << SubSeq(t, start, p - 1) >> \o PatternSplit(kind, t, e + 1, e + 1)
             ELSE PatternSplit(kind, t, p + 1, start)

\* [p.strip() for p in pieces if p.strip()]
StripKeep(pieces) ==
    LET Keep(p) == Strip(p) # <<>>
        kept == SelectSeq(pieces, Keep)
    IN  [i \in 1..Len(kept) |-> Strip(kept[i])]

\* [p for p in pieces if p.strip()]
KeepNonBlank(pieces) ==
    LET Keep(p) == Strip(p) # <<>>
    IN  SelectSeq(pieces, Keep)

\* utils.py: _split_paragraphs, _split_sentences, _split_words
SplitParagraphs(t) == StripKeep(PatternSplit("paragraph_pattern", t, 1, 1))
SplitSentences(t) == StripKeep(PatternSplit("sentence_pattern", t, 1, 1))
SplitWords(t) == KeepNonBlank(PatternSplit("whitespace", t, 1, 1))

\* The strategies of SplitStrategy, and a value outside the enumeration.
Strategies == {"paragraph", "sentence", "word"}
StrategyInputs == Strategies \cup {"bogus"}

\* The variants and strategies whose segmenter is code of the repository
\* (the sentence and word strategies of the two refactorings call nltk and
\* textwrap).
SegmenterModelled(v, st) == v = "utils" \/ st = "paragraph"

\* The units split() hands to _create_chunks.
Segment(v, st, t) ==
    CASE v = "utils" /\ st = "paragraph" -> SplitParagraphs(t)
      [] v = "utils" /\ st = "sentence"  -> SplitSentences(t)
      [] v = "utils"                     -> SplitWords(t)
      [] v = "chatgpt"                   -> PatternSplit("blank_line", t, 1, 1)
      [] OTHER -> KeepNonBlank(PatternSplit("blank_line", t, 1, 1))

\* ------------------------------------------------ api/text_splitter: texts
MaxWords == 2        \* words of the longest sample text

\* the words and the whitespace between them that the sample texts are made of
TextWords == { <<"a">>, <<"A">>, <<"a", ".">> }
TextSeps == { <<SP>>, <<NL>>, <<NL, NL>>, <<NL, SP, NL>>, <<NL, NL, NL>>,
              <<NL, NL, NL, NL>> }

RECURSIVE WordTexts(_)
WordTexts(k) ==
    IF k = 1 THEN TextWords
    ELSE {t \o s \o w : t \in WordTexts(k - 1), s \in TextSeps, w \in TextWords}

\* the example request of the specification: three paragraphs
ExampleText ==
    << "P", "a", "r", "a", SP, "o", "n", "e", ".", NL, NL, "P", "a", "r",
       "a", SP, "t", "w", "o", SP, "i", "s", SP, "a", SP, "b", "i", "t", SP,
       "l", "o", "n", "g", "e", "r", ".", NL, NL, "P", "a", "r", "a", SP,
       "t", "h", "r", "e", "e", "." >>
ExampleConfig == <<20, 5>>

\* texts offered to split(): words with whitespace between them, the same
\* with whitespace around them, and the example
TextSamples ==
    UNION {WordTexts(k) : k \in 1..MaxWords}
        \cup {<<SP>> \o w \o <<NL>> : w \in TextWords}
        \cup {ExampleText}
BlankTexts == { <<>>, <<SP>>, <<NL, NL>> }

\* (chunk_size, overlap_size) and strategy offered to the constructor: every
\* small pair where a behaviour studies the assembler on given units, a few
\* pairs and every strategy where it studies split() on texts
TextConfigs == { <<MaxChunkSize, 0>>, <<MaxChunkSize, 1>>, ExampleConfig }
ConfigsOf(m) == IF m = "text" THEN TextConfigs ELSE ChunkSizes \X OverlapSizes
StrategiesOf(m) == IF m = "text" THEN StrategyInputs ELSE {"paragraph"}

\* ------------------------------------------------------------------ state
VARIABLES
    variant,          \* which TextSplitter class the instance is
    chunk_size,       \* self.chunk_size
    overlap_size,     \* self.overlap_size
    pc,               \* position of the request in the pipeline
    units,            \* the units handed to _create_chunks
    idx,              \* loop index into units (1-based)
    current_chunk,    \* current_chunk (list of units)
    current_length,   \* current_length
    chunks,           \* chunks (list of joined strings, pre-overlap)
    emitted,          \* the unit list behind each entry of chunks
    result,           \* what split() returned
    oversized_chunks, \* ChunksOutput.oversized_chunks
    strategy,         \* self.strategy
    text,             \* the text of the split() call in progress
    round,            \* how many split() calls the instance has served
    prev_text,        \* the text of the call before this one
    prev_result,      \* what the call before this one returned
    http_status       \* status the /split route answered (0: none yet)

\* api/text_splitter_langchain: process-wide state and one entry per invocation
VARIABLES
    rlimit,           \* RLIMIT_AS of the process: [soft, hard]
    sig_handler,      \* the installed SIGALRM handler
    alarm,            \* 0: no alarm pending; i: the alarm invocation i armed
    active,           \* the invocations that run in this behaviour
    mode,             \* which inputs the behaviour offers: "off", "service",
                      \* "guard" (the guard requests), "text" (sample texts)
    lc_pc,            \* position of each invocation in split_text
    lc_text,          \* text
    lc_join,          \* join_chunks
    lc_cs,            \* self.settings.chunk_size
    lc_orig,          \* original_limits of memory_limit (<<>> is None)
    lc_exc,           \* the exception in flight / raised ("none" if none)
    lc_fault,         \* the fault that first raised it (its __context__ root)
    lc_records,       \* chunk_info_list returned
    lc_pre            \* the process-wide state when the invocation began

\* _get_chunk_positions applied to a text and a chunk list of its own
VARIABLES
    trk_pc,           \* "off", "input" (not called yet), "tracked", "validated"
                      \* or "joined"
    trk_text,         \* original_text
    trk_chunks,       \* chunks
    trk_positions,    \* the list _get_chunk_positions returned
    trk_verdict,      \* "none", or what validate_chunk_integrity answered
    trk_cs,           \* settings.chunk_size of the join, 0 before it
    trk_joined        \* the list _join_small_chunks returned

\* Claude-refactor.py: the lru_cache around TextSplitter._get_cached_split,
\* one cache for the class, shared by every instance and request
VARIABLES
    lru,              \* the cached keys, least recently used first
    instances,        \* TextSplitter instances built by cached requests
    served,           \* the (text, chunk_size, overlap_size, strategy) served
    last_call         \* the latest request: its tuple and how it was answered

\* api/docx2text: one request to the /convert route
VARIABLES
    dx_pc,            \* "off", or the handler's position: "check_type", "read",
                      \* "process", "except", "answered"
    dx_content_type,  \* file.content_type
    dx_file_size,     \* len(content), in bytes
    dx_env,           \* MAX_FILE_SIZE_MB of the environment
    dx_exc,           \* the exception in flight: [class, status_code]
    dx_temp,          \* TRUE while the temporary file exists
    dx_errors,        \* the error types given to metrics.track_error, in order
    dx_status         \* HTTP status of the response, 0 before it

splitVars == <<variant, chunk_size, overlap_size, pc, units, idx, current_chunk,
               current_length, chunks, emitted, result, oversized_chunks,
               strategy, text, round, prev_text, prev_result, http_status>>
procVars == <<rlimit, sig_handler, alarm>>
invVars == <<lc_pc, lc_text, lc_join, lc_cs, lc_orig, lc_exc, lc_fault,
             lc_records, lc_pre>>
lcVars == <<procVars, active, mode, invVars>>
trkVars == <<trk_pc, trk_text, trk_chunks, trk_positions, trk_verdict, trk_cs,
             trk_joined>>
cacheVars == <<lru, instances, served, last_call>>
dxVars == <<dx_pc, dx_content_type, dx_file_size, dx_env, dx_exc, dx_temp,
            dx_errors, dx_status>>
otherVars == <<trkVars, cacheVars, dxVars>>
vars == <<splitVars, lcVars, otherVars>>

cfgVars == <<variant, chunk_size, overlap_size>>
loopVars == <<units, idx, current_chunk, current_length, chunks, emitted>>
histVars == <<prev_text, prev_result>>
callVars == <<text, round, histVars>>

SplitInit ==
    /\ variant = "utils"
    /\ chunk_size = 0
    /\ overlap_size = 0
    /\ pc = "new"
    /\ units = <<>>
    /\ idx = 0
    /\ current_chunk = <<>>
    /\ current_length = 0
    /\ chunks = <<>>
    /\ emitted = <<>>
    /\ result = <<>>
    /\ oversized_chunks = 0
    /\ strategy = "paragraph"
    /\ text = <<>>
    /\ round = 0
    /\ prev_text = <<>>
    /\ prev_result = <<>>
    /\ http_status = 0

\* TextSplitter.__init__ (with validate_params where the variant has one); the
\* /split route answers its ValueError with HTTPException(status_code=400)
Construct ==
    /\ pc = "new"
    /\ \E v \in Variants, cfg \in ConfigsOf(mode), st \in StrategiesOf(mode) :
          /\ variant' = v
          /\ IF ValidateParamsRaises(v, cfg[1], cfg[2])
             THEN /\ pc' = "config_error"
                  /\ http_status' = 400
                  /\ UNCHANGED <<chunk_size, overlap_size, strategy>>
             ELSE /\ pc' = "ready"
                  /\ chunk_size' = cfg[1]
                  /\ overlap_size' = cfg[2]
                  /\ strategy' = st
                  /\ UNCHANGED http_status
    /\ UNCHANGED <<lcVars, otherVars>>
    /\ UNCHANGED <<loopVars, result, oversized_chunks, callVars>>

\* split() on text whose strip() is empty: returns []
SplitBlank ==
    /\ pc = "ready"
    /\ \E t \in BlankTexts : text' = t
    /\ round' = 1
    /\ result' = <<>>
    /\ pc' = "split_done"
    /\ UNCHANGED <<lcVars, otherVars>>
    /\ UNCHANGED <<cfgVars, strategy, loopVars, oversized_chunks, histVars,
                   http_status>>

\* split() on non-blank text: the segmenter's units enter _create_chunks
StartSplit ==
    /\ pc = "ready"
    /\ \E us \in UnitSeqs :
          /\ units' = us
          /\ text' = JoinSeq(us, <<NL, NL>>)
    /\ round' = 1
    /\ idx' = 1
    /\ current_chunk' = <<>>
    /\ current_length' = 0
    /\ chunks' = <<>>
    /\ emitted' = <<>>
    /\ pc' = "loop"
    /\ UNCHANGED <<lcVars, otherVars>>
    /\ UNCHANGED <<cfgVars, strategy, result, oversized_chunks, histVars,
                   http_status>>

\* An oversized branch that forgets the chunk it was building.
StepOversizedNoFlush ==
    /\ pc = "loop"
    /\ idx <= Len(units)
    /\ LET unit == units[idx] IN
         /\ Len(unit) > chunk_size
         /\ chunks' = Append(chunks, unit)
         /\ emitted' = Append(emitted, <<unit>>)
    /\ current_chunk' = <<>>
    /\ current_length' = 0
    /\ idx' = idx + 1
    /\ UNCHANGED <<lcVars, otherVars>>
    /\ UNCHANGED <<cfgVars, strategy, pc, units, result, oversized_chunks,
                   callVars, http_status>>

\* An oversized branch that adds the unit to the chunk being built.
StepOversizedMerges ==
    /\ pc = "loop"
    /\ idx <= Len(units)
    /\ LET unit == units[idx] IN
         /\ Len(unit) > chunk_size
         /\ chunks' = Append(chunks, Join(Append(current_chunk, unit),
                                          Separator(variant)))
         /\ emitted' = Append(emitted, Append(current_chunk, unit))
    /\ current_chunk' = <<>>
    /\ current_length' = 0
    /\ idx' = idx + 1
    /\ UNCHANGED <<lcVars, otherVars>>
    /\ UNCHANGED <<cfgVars, strategy, pc, units, result, oversized_chunks,
                   callVars, http_status>>

\* loop body, branch `if unit_length > self.chunk_size`
StepOversized ==
    /\ pc = "loop"
    /\ idx <= Len(units)
    /\ LET unit == units[idx] IN
         /\ Len(unit) > chunk_size
         /\ IF current_chunk # <<>>
            THEN /\ chunks' = chunks \o <<Join(current_chunk, Separator(variant)), unit>>
                 /\ emitted' = emitted \o <<current_chunk, <<unit>> >>
            ELSE /\ chunks' = Append(chunks, unit)
                 /\ emitted' = Append(emitted, <<unit>>)
    /\ current_chunk' = <<>>
    /\ current_length' = 0
    /\ idx' = idx + 1
    /\ UNCHANGED <<lcVars, otherVars>>
    /\ UNCHANGED <<cfgVars, strategy, pc, units, result, oversized_chunks,
                   callVars, http_status>>

\* loop body, branch `if current_length + unit_length <= self.chunk_size`
StepAppend ==
    /\ pc = "loop"
    /\ idx <= Len(units)
    /\ LET unit == units[idx] IN
         /\ Len(unit) <= chunk_size
         /\ Fits(current_length, Len(unit), chunk_size)
         /\ current_chunk' = Append(current_chunk, unit)
         /\ current_length' = current_length + Len(unit)
    /\ idx' = idx + 1
    /\ UNCHANGED <<lcVars, otherVars>>
    /\ UNCHANGED <<cfgVars, strategy, pc, units, chunks, emitted, result,
                   oversized_chunks, callVars, http_status>>

\* loop body, the `else` branch: close the chunk and start a new one
StepFlush ==
    /\ pc = "loop"
    /\ idx <= Len(units)
    /\ LET unit == units[idx] IN
         /\ Len(unit) <= chunk_size
         /\ ~Fits(current_length, Len(unit), chunk_size)
         /\ chunks' = Append(chunks, Join(current_chunk, Separator(variant)))
         /\ emitted' = Append(emitted, current_chunk)
         /\ current_chunk' = <<unit>>
         /\ current_length' = Len(unit)
    /\ idx' = idx + 1
    /\ UNCHANGED <<lcVars, otherVars>>
    /\ UNCHANGED <<cfgVars, strategy, pc, units, result, oversized_chunks,
                   callVars, http_status>>

\* An assembler that returns without the chunk it was still building.
EndLoopNoFlush ==
    /\ pc = "loop"
    /\ idx > Len(units)
    /\ result' = AddOverlap(chunks, overlap_size)
    /\ current_chunk' = <<>>
    /\ pc' = "split_done"
    /\ UNCHANGED <<lcVars, otherVars>>
    /\ UNCHANGED <<cfgVars, strategy, units, idx, current_length, chunks, emitted,
                   oversized_chunks, callVars, http_status>>

\* after the loop: final flush, then _add_overlap; split() returns
EndLoop ==
    /\ pc = "loop"
    /\ idx > Len(units)
    /\ LET final == IF current_chunk # <<>>
                    THEN Append(chunks, Join(current_chunk, Separator(variant)))
                    ELSE chunks
           finalE == IF current_chunk # <<>>
                     THEN Append(emitted, current_chunk)
                     ELSE emitted
       IN /\ chunks' = final
          /\ emitted' = finalE
          /\ result' = AddOverlap(final, overlap_size)
    /\ current_chunk' = <<>>
    /\ pc' = "split_done"
    /\ UNCHANGED <<lcVars, otherVars>>
    /\ UNCHANGED <<cfgVars, strategy, units, idx, current_length,
                   oversized_chunks, callVars, http_status>>

\* the /split route after split() returned: count and answer (200); the
\* TextInput of Claude-refactor.py lets no blank text reach its route
Respond ==
    /\ pc = "split_done"
    /\ variant = "claude" => NonBlank(text)
    /\ oversized_chunks' = CountOversized(result, chunk_size)
    /\ http_status' = 200
    /\ pc' = "responded"
    /\ UNCHANGED <<lcVars, otherVars>>
    /\ UNCHANGED <<cfgVars, strategy, loopVars, result, callVars>>

\* A split() whose list of chunks outlives the call that built it.
BeginSplitLeaky(t) ==
    /\ text' = t
    /\ IF NonBlank(t)
       THEN /\ units' = Segment(variant, strategy, t)
            /\ idx' = 1
            /\ current_chunk' = <<>>
            /\ current_length' = 0
            /\ pc' = "loop"
            /\ UNCHANGED <<chunks, emitted, result>>
       ELSE /\ result' = <<>>
            /\ pc' = "split_done"
            /\ UNCHANGED loopVars

\* split(text) up to the loop of _create_chunks: [] for blank text, else the
\* strategy's units and fresh chunks, current_chunk, current_length
BeginSplit(t) ==
    /\ text' = t
    /\ IF NonBlank(t)
       THEN /\ units' = Segment(variant, strategy, t)
            /\ idx' = 1
            /\ current_chunk' = <<>>
            /\ current_length' = 0
            /\ chunks' = <<>>
            /\ emitted' = <<>>
            /\ pc' = "loop"
            /\ UNCHANGED result
       ELSE /\ result' = <<>>
            /\ pc' = "split_done"
            /\ UNCHANGED loopVars

\* split() on a non-blank text: the strategy's segmenter makes the units
SplitText ==
    /\ pc = "ready"
    /\ SegmenterModelled(variant, strategy)
    /\ \E t \in TextSamples : BeginSplit(t)
    /\ round' = 1
    /\ UNCHANGED <<lcVars, otherVars>>
    /\ UNCHANGED <<cfgVars, strategy, oversized_chunks, histVars, http_status>>

\* the same instance is given the same text again
RepeatSplit ==
    /\ pc = "split_done"
    /\ round \in {1, 2}
    /\ SegmenterModelled(variant, strategy)
    /\ prev_text' = text
    /\ prev_result' = result
    /\ round' = round + 1
    /\ BeginSplit(text)
    /\ UNCHANGED <<lcVars, otherVars>>
    /\ UNCHANGED <<cfgVars, strategy, oversized_chunks, http_status>>

\* the same instance is given the single chunk it just returned
Resplit ==
    /\ pc = "split_done"
    /\ round = 1
    /\ Len(result) = 1
    /\ SegmenterModelled(variant, strategy)
    /\ prev_text' = text
    /\ prev_result' = result
    /\ round' = round + 1
    /\ BeginSplit(result[1])
    /\ UNCHANGED <<lcVars, otherVars>>
    /\ UNCHANGED <<cfgVars, strategy, oversized_chunks, http_status>>

\* ------------------------------------------- api/text_splitter_langchain
SplitOff ==
    /\ SplitInit

LCIdle(m) ==
    /\ rlimit = [soft |-> RLIM_INFINITY, hard |-> RLIM_INFINITY]
    /\ sig_handler = "SIG_DFL"
    /\ alarm = 0
    /\ active = {}
    /\ mode = m
    /\ lc_pc = [i \in Invs |-> "idle"]
    /\ lc_text = [i \in Invs |-> <<>>]
    /\ lc_join = [i \in Invs |-> FALSE]
    /\ lc_cs = [i \in Invs |-> 0]
    /\ lc_orig = [i \in Invs |-> <<>>]
    /\ lc_exc = [i \in Invs |-> "none"]
    /\ lc_fault = [i \in Invs |-> "none"]
    /\ lc_records = [i \in Invs |-> <<>>]
    /\ lc_pre = [i \in Invs |-> <<>>]

LCOff == LCIdle("off")

\* The process before any guarded call: Python's default SIGALRM disposition,
\* no alarm pending, an address-space limit the host set.
LCInit(invs, m) ==
    /\ rlimit \in PriorLimits
    /\ sig_handler = "SIG_DFL"
    /\ alarm = 0
    /\ active = invs
    /\ mode = m
    /\ lc_pc = [i \in Invs |-> "idle"]
    /\ lc_text = [i \in Invs |-> <<>>]
    /\ lc_join = [i \in Invs |-> FALSE]
    /\ lc_cs = [i \in Invs |-> 0]
    /\ lc_orig = [i \in Invs |-> <<>>]
    /\ lc_exc = [i \in Invs |-> "none"]
    /\ lc_fault = [i \in Invs |-> "none"]
    /\ lc_records = [i \in Invs |-> <<>>]
    /\ lc_pre = [i \in Invs |-> <<>>]

\* TextSplitterService(...).split_text(text, splitter_type, join_chunks) is
\* called; an unknown splitter_type raises ValueError before the guard
Call(i) ==
    /\ i \in active
    /\ lc_pc[i] = "idle"
    /\ \E req \in RequestsOf(mode), st \in SplitterTypes :
          /\ lc_text' = [lc_text EXCEPT ![i] = req.text]
          /\ lc_join' = [lc_join EXCEPT ![i] = req.join_chunks]
          /\ lc_cs' = [lc_cs EXCEPT ![i] = req.chunk_size]
          /\ IF st = "bogus"
             THEN /\ lc_pc' = [lc_pc EXCEPT ![i] = "raised"]
                  /\ lc_exc' = [lc_exc EXCEPT ![i] = "ValueError"]
                  /\ lc_fault' = [lc_fault EXCEPT ![i] = "config"]
             ELSE /\ lc_pc' = [lc_pc EXCEPT ![i] = "time_signal"]
                  /\ UNCHANGED <<lc_exc, lc_fault>>
    /\ lc_pre' = [lc_pre EXCEPT ![i] =
                    <<[rlimit |-> rlimit, sig_handler |-> sig_handler, alarm |-> alarm]>>]
    /\ UNCHANGED <<splitVars, otherVars, procVars, active, mode, lc_orig, lc_records>>

\* time_limit: signal.signal(signal.SIGALRM, signal_handler)
TimeSignal(i) ==
    /\ lc_pc[i] = "time_signal"
    /\ sig_handler' = "signal_handler"
    /\ lc_pc' = [lc_pc EXCEPT ![i] = "time_alarm"]
    /\ UNCHANGED <<splitVars, otherVars, rlimit, alarm, active, mode, lc_text, lc_join,
                   lc_cs, lc_orig, lc_exc, lc_fault, lc_records, lc_pre>>

\* time_limit: signal.alarm(seconds)
TimeAlarm(i) ==
    /\ lc_pc[i] = "time_alarm"
    /\ alarm' = i
    /\ lc_pc' = [lc_pc EXCEPT ![i] = "mem_get"]
    /\ UNCHANGED <<splitVars, otherVars, rlimit, sig_handler, active, mode, lc_text,
                   lc_join, lc_cs, lc_orig, lc_exc, lc_fault, lc_records, lc_pre>>

\* the alarm fires after time_limit yielded and before memory_limit's try:
\* the handler's TimeoutError leaves through time_limit's finally
TimeoutBeforeMemory(i) ==
    /\ lc_pc[i] = "mem_get"
    /\ alarm # 0
    /\ sig_handler = "signal_handler"
    /\ alarm' = 0
    /\ lc_exc' = [lc_exc EXCEPT ![i] = "TimeoutError"]
    /\ lc_fault' = [lc_fault EXCEPT ![i] = "timeout"]
    /\ lc_pc' = [lc_pc EXCEPT ![i] = "time_finally"]
    /\ UNCHANGED <<splitVars, otherVars, rlimit, sig_handler, active, mode, lc_text,
                   lc_join, lc_cs, lc_orig, lc_records, lc_pre>>

\* memory_limit: original_limits = resource.getrlimit(resource.RLIMIT_AS)
MemGet(i) ==
    /\ lc_pc[i] = "mem_get"
    /\ lc_orig' = [lc_orig EXCEPT ![i] = <<rlimit>>]
    /\ lc_pc' = [lc_pc EXCEPT ![i] = "mem_set"]
    /\ UNCHANGED <<splitVars, otherVars, procVars, active, mode, lc_text, lc_join,
                   lc_cs, lc_exc, lc_fault, lc_records, lc_pre>>

\* memory_limit: resource.setrlimit(RLIMIT_AS, (max_bytes, original_limits[1]));
\* its ValueError is caught by `except Exception` and raised as MemoryError
MemSet(i) ==
    /\ lc_pc[i] = "mem_set"
    /\ IF SetrlimitRaises(max_memory_gb, lc_orig[i][1].hard)
       THEN /\ lc_exc' = [lc_exc EXCEPT ![i] = "MemoryError"]
            /\ lc_fault' = [lc_fault EXCEPT ![i] = "setrlimit"]
            /\ lc_pc' = [lc_pc EXCEPT ![i] = "mem_finally"]
            /\ UNCHANGED rlimit
       ELSE /\ rlimit' = [soft |-> max_memory_gb, hard |-> lc_orig[i][1].hard]
            /\ lc_pc' = [lc_pc EXCEPT ![i] = "body"]
            /\ UNCHANGED <<lc_exc, lc_fault>>
    /\ UNCHANGED <<splitVars, otherVars, sig_handler, alarm, active, mode, lc_text,
                   lc_join, lc_cs, lc_orig, lc_records, lc_pre>>

\* What memory_limit's `except Exception` makes of an exception of the body.
GuardConverts(exc) == "MemoryError"

\* the body of the with blocks runs to its return or to its ValueError
Body(i) ==
    /\ lc_pc[i] = "body"
    /\ \E raw \in SplitterOutputs(lc_text[i]) :
          LET out == SplitBody(lc_text[i], raw, lc_join[i], lc_cs[i]) IN
          /\ lc_records' = [lc_records EXCEPT ![i] = out.records]
          /\ lc_fault' = [lc_fault EXCEPT ![i] = out.fault]
          /\ lc_exc' = [lc_exc EXCEPT ![i] =
                          IF out.fault = "none" THEN "none"
                          ELSE GuardConverts("ValueError")]
    /\ lc_pc' = [lc_pc EXCEPT ![i] = "mem_finally"]
    /\ UNCHANGED <<splitVars, otherVars, procVars, active, mode, lc_text, lc_join,
                   lc_cs, lc_orig, lc_pre>>

\* the alarm fires while the body runs: signal_handler raises TimeoutError
BodyTimeout(i) ==
    /\ lc_pc[i] = "body"
    /\ alarm # 0
    /\ sig_handler = "signal_handler"
    /\ alarm' = 0
    /\ lc_fault' = [lc_fault EXCEPT ![i] = "timeout"]
    /\ lc_exc' = [lc_exc EXCEPT ![i] = GuardConverts("TimeoutError")]
    /\ lc_pc' = [lc_pc EXCEPT ![i] = "mem_finally"]
    /\ UNCHANGED <<splitVars, otherVars, rlimit, sig_handler, active, mode, lc_text,
                   lc_join, lc_cs, lc_orig, lc_records, lc_pre>>

\* an allocation of the body exceeds RLIMIT_AS: the interpreter raises its
\* built-in MemoryError
BodyOutOfMemory(i) ==
    /\ lc_pc[i] = "body"
    /\ lc_fault' = [lc_fault EXCEPT ![i] = "memory"]
    /\ lc_exc' = [lc_exc EXCEPT ![i] = GuardConverts("builtins.MemoryError")]
    /\ lc_pc' = [lc_pc EXCEPT ![i] = "mem_finally"]
    /\ UNCHANGED <<splitVars, otherVars, procVars, active, mode, lc_text, lc_join,
                   lc_cs, lc_orig, lc_records, lc_pre>>

\* memory_limit's finally: resource.setrlimit(RLIMIT_AS, original_limits)
MemFinally(i) ==
    /\ lc_pc[i] = "mem_finally"
    /\ rlimit' = IF lc_orig[i] # <<>> THEN lc_orig[i][1] ELSE rlimit
    /\ lc_pc' = [lc_pc EXCEPT ![i] = "time_finally"]
    /\ UNCHANGED <<splitVars, otherVars, sig_handler, alarm, active, mode, lc_text,
                   lc_join, lc_cs, lc_orig, lc_exc, lc_fault, lc_records, lc_pre>>

\* The except clauses of split_text: the exception that leaves the method.
ExceptClauses(exc) ==
    CASE exc = "TimeoutError" -> "TimeoutError"
      [] exc = "MemoryError"  -> "MemoryError"
      [] OTHER                -> exc

\* time_limit's finally: signal.alarm(0); then split_text returns the list or
\* one of its except clauses raises
TimeFinally(i) ==
    /\ lc_pc[i] = "time_finally"
    /\ alarm' = 0
    /\ lc_exc' = [lc_exc EXCEPT ![i] = ExceptClauses(lc_exc[i])]
    /\ lc_pc' = [lc_pc EXCEPT ![i] = IF lc_exc[i] = "none" THEN "returned" ELSE "raised"]
    /\ UNCHANGED <<splitVars, otherVars, rlimit, sig_handler, active, mode, lc_text,
                   lc_join, lc_cs, lc_orig, lc_fault, lc_records, lc_pre>>

\* ------------------------------------------ _get_chunk_positions on its own
MaxTrkTextLen == 4   \* characters of the longest original_text
MaxTrkChunks == 3    \* chunks of the longest chunk list

TrkAlphabet == {"a", "b"}
TrkTexts == UNION {[1..k -> TrkAlphabet] : k \in 1..MaxTrkTextLen}
\* chunks of one or two characters, found in the text or not
TrkChunkPool == [1..1 -> TrkAlphabet] \cup [1..2 -> TrkAlphabet]
TrkChunkSeqs == UNION {[1..k -> TrkChunkPool] : k \in 1..MaxTrkChunks}
\* settings.chunk_size in bytes: "a\nb" is 3 bytes, "aa\nbb" and "a\nb\na" are 5
TrkChunkSizes == {3, 4, 5}

TrkOff ==
    /\ trk_pc = "off"
    /\ trk_text = <<>>
    /\ trk_chunks = <<>>
    /\ trk_positions = <<>>
    /\ trk_verdict = "none"
    /\ trk_cs = 0
    /\ trk_joined = <<>>

TrkInit ==
    /\ trk_pc = "input"
    /\ trk_text \in TrkTexts
    /\ trk_chunks \in TrkChunkSeqs
    /\ trk_positions = <<>>
    /\ trk_verdict = "none"
    /\ trk_cs = 0
    /\ trk_joined = <<>>

\* positions = self._get_chunk_positions(text, chunks)
Track ==
    /\ trk_pc = "input"
    /\ trk_positions' = GetChunkPositions(trk_text, trk_chunks)
    /\ trk_pc' = "tracked"
    /\ UNCHANGED <<splitVars, lcVars, cacheVars, dxVars, trk_text, trk_chunks, trk_verdict,
                   trk_cs, trk_joined>>

\* chunk_info_list = [ChunkInfo(text=chunk, size=..., start_position=pos["start"],
\* end_position=pos["end"]) for chunk, pos in zip(chunks, positions)]
PlainRecords(cks, positions) ==
    [k \in 1..Len(cks) |->
        ChunkInfo(cks[k], Utf8Len(cks[k]), positions[k].start, positions[k].end)]

\* self.validate_chunk_integrity(text, chunk_info_list) on the plain records
\* of the tracked chunks
TrkValidate ==
    /\ trk_pc = "tracked"
    /\ trk_verdict' = ValidateChunkIntegrity(trk_text,
                                              PlainRecords(trk_chunks, trk_positions))
    /\ trk_pc' = "validated"
    /\ UNCHANGED <<splitVars, lcVars, cacheVars, dxVars, trk_text, trk_chunks,
                   trk_positions, trk_cs, trk_joined>>

\* chunk_info_list = self._join_small_chunks(chunks, positions) under a
\* settings.chunk_size of cs
TrkJoin ==
    /\ trk_pc = "tracked"
    /\ \E cs \in TrkChunkSizes :
          /\ trk_cs' = cs
          /\ trk_joined' = JoinSmallChunks(trk_chunks, trk_positions, cs)
    /\ trk_pc' = "joined"
    /\ UNCHANGED <<splitVars, lcVars, cacheVars, dxVars, trk_text, trk_chunks,
                   trk_positions, trk_verdict>>

\* ------------------------------------ Claude-refactor.py: the result cache
maxsize == 1000
MaxVaried == 3       \* leading requests that choose their tuple freely
MaxOverflow == 2     \* cached requests made beyond the cache's capacity

\* the (text, chunk_size, overlap_size, strategy) that requests carry
CacheRequests ==
    { [text |-> <<"a">>, chunk_size |-> MIN_CHUNK_SIZE, overlap_size |-> 0,
       strategy |-> "paragraph"],
      [text |-> <<"b">>, chunk_size |-> MIN_CHUNK_SIZE, overlap_size |-> 0,
       strategy |-> "paragraph"] }

NoCall == [req |-> <<>>, known |-> FALSE, outcome |-> "none"]

CacheInit ==
    /\ lru = <<>>
    /\ instances = 0
    /\ served = {}
    /\ last_call = NoCall

\* functools.lru_cache: the keys held, a hit, and an insertion after a miss
LruKeys(c) == {c[k] : k \in 1..Len(c)}

LruTouch(c, key) ==
    LET Other(e) == e # key
    IN  Append(SelectSeq(c, Other), key)

\* A cache that makes room by dropping its newest entry.
LruInsertDropsNewest(c, key) ==
    IF Len(c) >= maxsize THEN Append(SubSeq(c, 1, Len(c) - 1), key)
    ELSE Append(c, key)

LruInsert(c, key) ==
    IF Len(c) >= maxsize THEN Append(Tail(c), key) ELSE Append(c, key)

\* the /split route with cache_control: a new TextSplitter, then
\* splitter._get_cached_split(text, chunk_size, overlap_size, strategy); the
\* lru_cache key is the whole argument list, self first
CachedRequest ==
    /\ instances < maxsize + MaxOverflow
    /\ \E r \in CacheRequests :
          /\ instances >= MaxVaried => r = last_call.req
          /\ LET self == instances + 1
                 key == <<self, r.text, r.chunk_size, r.overlap_size, r.strategy>>
                 hit == key \in LruKeys(lru)
             IN  /\ instances' = self
                 /\ lru' = IF hit THEN LruTouch(lru, key) ELSE LruInsert(lru, key)
                 /\ last_call' = [req |-> r, known |-> r \in served,
                                  outcome |-> IF hit THEN "hit" ELSE "miss"]
          /\ served' = served \cup {r}
    /\ UNCHANGED <<splitVars, lcVars, trkVars, dxVars>>

\* the /split route without cache_control: split_async, the cache untouched
UncachedRequest ==
    /\ \E r \in CacheRequests :
          /\ instances >= MaxVaried => r = last_call.req
          /\ last_call' = [req |-> r, known |-> r \in served, outcome |-> "bypass"]
    /\ UNCHANGED <<splitVars, lcVars, trkVars, dxVars, lru, instances, served>>

\* --------------------------------------------- api/docx2text: /convert
MaxFileMB == 2       \* largest MAX_FILE_SIZE_MB, and uploads up to just over it

BytesPerMB == 1024 * 1024
ALLOWED_MIME_TYPES ==
    {"application/vnd.openxmlformats-officedocument.wordprocessingml.document"}
DxContentTypes == ALLOWED_MIME_TYPES \cup {"text/plain", "application/pdf"}
DxFileSizes == {0} \cup {k * BytesPerMB + d : k \in 1..MaxFileMB, d \in {0, 1}}
\* os.getenv('MAX_FILE_SIZE_MB'): unset (None), a string int() rejects, or
\* the decimal form of an integer
DxEnvValues == {<<"unset", 0>>, <<"invalid", 0>>} \cup {<<"int", k>> : k \in 1..MaxFileMB}

NoException == [class |-> "none", status_code |-> 0]
HTTPException(code) == [class |-> "HTTPException", status_code |-> code]
\* the classes raised in the handler; every one derives from Exception
ExceptionSubclasses == {"HTTPException", "ValueError", "PackageNotFoundError"}

\* validate_file_size under MAX_FILE_SIZE_MB = env: TRUE when it raises
\* ValueError (the variable is unset or int() rejects it)
ValidateFileSizeRaises(env) == env[1] # "int"

\* validate_file_size(file_size) when it returns: is_valid
ValidateFileSize(file_size, env) == ~(file_size > env[2] * BytesPerMB)

DxOff ==
    /\ dx_pc = "off"
    /\ dx_content_type = ""
    /\ dx_file_size = 0
    /\ dx_env = <<"unset", 0>>
    /\ dx_exc = NoException
    /\ dx_temp = FALSE
    /\ dx_errors = <<>>
    /\ dx_status = 0

DxInit ==
    /\ dx_pc = "check_type"
    /\ dx_content_type \in DxContentTypes
    /\ dx_file_size \in DxFileSizes
    /\ dx_env \in DxEnvValues
    /\ dx_exc = NoException
    /\ dx_temp = FALSE
    /\ dx_errors = <<>>
    /\ dx_status = 0

\* if file.content_type not in ALLOWED_MIME_TYPES: ... raise HTTPException(400)
DxCheckType ==
    /\ dx_pc = "check_type"
    /\ IF dx_content_type \notin ALLOWED_MIME_TYPES
       THEN /\ dx_errors' = Append(dx_errors, "InvalidContentType")
            /\ dx_exc' = HTTPException(400)
            /\ dx_pc' = "except"
       ELSE /\ dx_pc' = "read"
            /\ UNCHANGED <<dx_errors, dx_exc>>
    /\ UNCHANGED <<splitVars, lcVars, trkVars, cacheVars, dx_content_type,
                   dx_file_size, dx_env, dx_temp, dx_status>>

\* content = await file.read(); validate_file_size(len(content)); on success
\* the temporary file is written
DxValidateSize ==
    /\ dx_pc = "read"
    /\ LET is_valid == ValidateFileSize(dx_file_size, dx_env) IN
       IF ValidateFileSizeRaises(dx_env)
       THEN /\ dx_exc' = [class |-> "ValueError", status_code |-> 0]
            /\ dx_pc' = "except"
            /\ UNCHANGED <<dx_errors, dx_temp>>
       ELSE IF ~is_valid
       THEN /\ dx_errors' = Append(dx_errors, "FileSizeExceeded")
            /\ dx_exc' = HTTPException(400)
            /\ dx_pc' = "except"
            /\ UNCHANGED dx_temp
       ELSE /\ dx_temp' = TRUE
            /\ dx_pc' = "process"
            /\ UNCHANGED <<dx_errors, dx_exc>>
    /\ UNCHANGED <<splitVars, lcVars, trkVars, cacheVars, dx_content_type,
                   dx_file_size, dx_env, dx_status>>

\* extract_text_from_docx and clean_text inside try/finally: the file is
\* unlinked on both ways out; python-docx raises on a file it cannot open
DxProcess ==
    /\ dx_pc = "process"
    /\ dx_temp' = FALSE
    /\ \E readable \in BOOLEAN :
          IF readable
          THEN /\ dx_status' = 200
               /\ dx_pc' = "answered"
               /\ UNCHANGED dx_exc
          ELSE /\ dx_exc' = [class |-> "PackageNotFoundError", status_code |-> 0]
               /\ dx_pc' = "except"
               /\ UNCHANGED dx_status
    /\ UNCHANGED <<splitVars, lcVars, trkVars, cacheVars, dx_content_type,
                   dx_file_size, dx_env, dx_errors>>

\* except Exception as e: metrics.track_error("/convert", type(e).__name__);
\* raise HTTPException(status_code=500, detail=str(e)); an exception the
\* clause does not catch leaves the handler as it is
DxExcept ==
    /\ dx_pc = "except"
    /\ IF dx_exc.class \in ExceptionSubclasses
       THEN /\ dx_errors' = Append(dx_errors, dx_exc.class)
            /\ dx_exc' = HTTPException(500)
            /\ dx_status' = 500
       ELSE /\ dx_status' = dx_exc.status_code
            /\ UNCHANGED <<dx_errors, dx_exc>>
    /\ dx_pc' = "answered"
    /\ UNCHANGED <<splitVars, lcVars, trkVars, cacheVars, dx_content_type,
                   dx_file_size, dx_env, dx_temp>>

Init == SplitInit /\ LCOff /\ TrkOff /\ CacheInit /\ DxOff

InitService == SplitOff /\ LCInit({1}, "service") /\ TrkOff /\ CacheInit /\ DxOff

InitGuard == SplitOff /\ LCInit({1, 2}, "guard") /\ TrkOff /\ CacheInit /\ DxOff

NextService ==
    \/ \E i \in Invs : Call(i)
    \/ \E i \in Invs : TimeSignal(i)
    \/ \E i \in Invs : TimeAlarm(i)
    \/ \E i \in Invs : TimeoutBeforeMemory(i)
    \/ \E i \in Invs : MemGet(i)
    \/ \E i \in Invs : MemSet(i)
    \/ \E i \in Invs : Body(i)
    \/ \E i \in Invs : BodyTimeout(i)
    \/ \E i \in Invs : BodyOutOfMemory(i)
    \/ \E i \in Invs : MemFinally(i)
    \/ \E i \in Invs : TimeFinally(i)

\* one guarded split_text invocation of TextSplitterService
SpecService == InitService /\ [][NextService]_vars

\* two invocations whose guard steps interleave
SpecGuard == InitGuard /\ [][NextService]_vars

Next ==
    \/ Construct
    \/ SplitBlank
    \/ StartSplit
    \/ StepOversized
    \/ StepAppend
    \/ StepFlush
    \/ EndLoop
    \/ Respond

Spec == Init /\ [][Next]_vars

InitText == SplitInit /\ LCIdle("text") /\ TrkOff /\ CacheInit /\ DxOff

NextText ==
    \/ Construct
    \/ SplitBlank
    \/ SplitText
    \/ StepOversized
    \/ StepAppend
    \/ StepFlush
    \/ EndLoop
    \/ Respond
    \/ RepeatSplit
    \/ Resplit

\* split() on texts: segmenter, assembler and weaver, and further calls on
\* the same instance
SpecText == InitText /\ [][NextText]_vars

InitTracker == SplitOff /\ LCIdle("tracker") /\ TrkInit /\ CacheInit /\ DxOff

NextTracker == Track \/ TrkValidate \/ TrkJoin

\* _get_chunk_positions on every small text and chunk list
SpecTracker == InitTracker /\ [][NextTracker]_vars

InitCache == SplitOff /\ LCIdle("cache") /\ TrkOff /\ CacheInit /\ DxOff

NextCache ==
    \/ CachedRequest
    \/ UncachedRequest

\* requests to the /split route of Claude-refactor.py, with and without the
\* cache
SpecCache == InitCache /\ [][NextCache]_vars

InitDocx == SplitOff /\ LCIdle("docx") /\ TrkOff /\ CacheInit /\ DxInit

NextDocx ==
    \/ DxCheckType
    \/ DxValidateSize
    \/ DxProcess
    \/ DxExcept

\* one upload to /convert, of every content type, size and size limit
SpecDocx == InitDocx /\ [][NextDocx]_vars

\* ================================================================ claims
\* Configuration the spec calls valid for api/text_splitter/utils.py.
ValidConfig == chunk_size > 0 /\ overlap_size >= 0 /\ overlap_size < chunk_size

SplitReturned == pc \in {"split_done", "responded"}

\* The last n whole characters of s (all of s when it is shorter).
TrailingChars(s, n) == SubSeq(s, Len(s) - Min(n, Len(s)) + 1, Len(s))

IsOversizedChunk(j) == Len(emitted[j]) = 1 /\ Len(emitted[j][1]) > chunk_size

\* C1: every pre-overlap chunk that is not a single oversized unit has length
\* at most chunk_size, the joining newlines counted in the length.
C1_ChunkWithinBudget ==
    (SplitReturned /\ ValidConfig /\ variant = "utils") =>
        \A j \in 1..Len(chunks) :
            ~IsOversizedChunk(j) => Len(chunks[j]) <= chunk_size

\* C3: with overlap_size = O > 0, output chunk i (i > 0) whose pre-overlap
\* predecessor has at least O characters is the last O characters of that
\* predecessor, one newline, then pre-overlap chunk i.
C3_OverlapFromPredecessor ==
    (SplitReturned /\ overlap_size > 0) =>
        /\ Len(result) = Len(chunks)
        /\ \A i \in 2..Len(chunks) :
              Len(chunks[i-1]) >= overlap_size =>
                 result[i] = SubSeq(chunks[i-1],
                                    Len(chunks[i-1]) - overlap_size + 1,
                                    Len(chunks[i-1]))
                             \o <<NL>> \o chunks[i]

\* C3 witness: three chunks, the middle one oversized, woven with an overlap
\* that is shorter than the first chunk and than the oversized one.
C3_Witness ==
    /\ SplitReturned
    /\ overlap_size > 0
    /\ Len(chunks) = 3
    /\ IsOversizedChunk(2)
    /\ ~IsOversizedChunk(1)
    /\ Len(chunks[1]) > overlap_size
    /\ Len(chunks[2]) > overlap_size
    /\ Len(result[3]) = overlap_size + 1 + Len(chunks[3])

\* C4: for every overlap_size in 0..chunk_size-1 the weaver prepends exactly
\* the trailing overlap_size characters of the previous pre-overlap chunk
\* (none at all when overlap_size = 0) and the newline.
C4_PrependsExactlyOverlap ==
    (SplitReturned /\ ValidConfig) =>
        \A i \in 2..Len(chunks) :
            result[i] = TrailingChars(chunks[i-1], overlap_size) \o <<NL>> \o chunks[i]

\* C6: the reported oversized_chunks equals the number of units longer than
\* chunk_size.
C6_OversizedCountsUnits ==
    (pc = "responded" /\ ValidConfig /\ variant = "utils") =>
        oversized_chunks = Cardinality({k \in 1..Len(units) : Len(units[k]) > chunk_size})

\* C10: a splitter that was constructed with a positive chunk_size (and so may
\* run split) holds 0 <= overlap_size <= chunk_size - 1.
C10_ConstructedIsValid ==
    (pc \notin {"new", "config_error"} /\ chunk_size > 0) =>
        (0 <= overlap_size /\ overlap_size <= chunk_size - 1)

\* ---- claims about api/text_splitter_langchain
RECURSIVE SumTextLen(_)
SumTextLen(recs) == IF recs = <<>> THEN 0 ELSE Len(Head(recs).text) + SumTextLen(Tail(recs))

RECURSIVE SumSize(_)
SumSize(recs) == IF recs = <<>> THEN 0 ELSE Head(recs).size + SumSize(Tail(recs))

Finished(i) == lc_pc[i] \in {"returned", "raised"}

\* C2: every record sequence split_text returns has no overlapping and no
\* gapped consecutive pair, each record's text is the input slice
\* [start_position, end_position), and the record lengths sum to the length of
\* the input (in characters and in UTF-8 bytes).
C2_ReturnedRecordsIntact ==
    \A i \in Invs :
        lc_pc[i] = "returned" =>
            LET r == lc_records[i]
                t == lc_text[i]
            IN  /\ \A k \in 1..(Len(r) - 1) :
                       r[k].end_position = r[k+1].start_position
                /\ \A k \in 1..Len(r) :
                       /\ r[k].start_position >= 0
                       /\ r[k].end_position <= Len(t)
                       /\ r[k].text = SubSeq(t, r[k].start_position + 1, r[k].end_position)
                /\ SumTextLen(r) = Len(t)
                /\ SumSize(r) = Utf8Len(t)

\* C2 witness: split_text returned two or more records over a text that holds
\* a two-byte character.
C2_Witness ==
    \E i \in Invs :
        /\ lc_pc[i] = "returned"
        /\ Len(lc_records[i]) >= 2
        /\ \E k \in 1..Len(lc_text[i]) : lc_text[i][k] = "E"

\* C5: every returned ChunkInfo has end_position - start_position = size, the
\* UTF-8 byte length of its text.
C5_SpanEqualsByteSize ==
    \A i \in Invs :
        lc_pc[i] = "returned" =>
            \A k \in 1..Len(lc_records[i]) :
                LET r == lc_records[i][k] IN
                /\ r.size = Utf8Len(r.text)
                /\ r.end_position - r.start_position = r.size

\* C7: a fault leaves split_text as its own kind: a deadline breach as
\* TimeoutError, a memory breach as MemoryError, an integrity failure as
\* ValueError.
C7_FaultKeepsItsKind ==
    \A i \in Invs :
        lc_pc[i] = "raised" =>
            /\ lc_fault[i] = "timeout" => lc_exc[i] = "TimeoutError"
            /\ lc_fault[i] = "memory" => lc_exc[i] = "MemoryError"
            /\ lc_fault[i] = "validation" => lc_exc[i] = "ValueError"

\* C8: when a guarded invocation has left split_text (by return or by any
\* exception), the memory limit, the pending alarm and the SIGALRM handler are
\* what they were before the call.
C8_GuardRestoresPriorState ==
    \A i \in Invs :
        (Finished(i) /\ lc_fault[i] # "config") =>
            /\ rlimit = lc_pre[i][1].rlimit
            /\ alarm = lc_pre[i][1].alarm
            /\ sig_handler = lc_pre[i][1].sig_handler

\* An invocation is inside its time_limit scope: after its signal.alarm(seconds)
\* and before its own signal.alarm(0).
InScope(i) == lc_pc[i] \in {"mem_get", "mem_set", "body", "mem_finally", "time_finally"}

C11_SmallChunkSizeRejected ==
    (variant = "utils" /\ pc \notin {"new", "config_error"}) =>
        chunk_size >= MIN_CHUNK_SIZE

\* C12: a split of empty or all-whitespace text is rejected before
\* segmentation: no split call of the utils.py TextSplitter returns a result
\* for such a text.
C12_BlankTextRejected == (variant = "utils" /\ SplitReturned) => NonBlank(text)

\* C13: a strategy outside {paragraph, sentence, word} fails before any text
\* is segmented: units exist only under one of the three strategies.
C13_UnknownStrategyRejected == units # <<>> => strategy \in Strategies

\* C14: the /split route of text_splitter answers a configuration error and
\* an empty-input error with 400.
C14_ClientFaultsAnswered400 ==
    ( /\ variant = "utils"
      /\ http_status # 0
      /\ (pc = "config_error" \/ ~NonBlank(text)) ) => http_status = 400

\* ------------------------------------------------------- tracker, C15
\* C15: the positions the tracker assigns never go back: every record starts
\* at or after the start and the end of the record before it.
C15_PositionsNonDecreasing ==
    trk_pc = "tracked" =>
        \A k \in 2..Len(trk_positions) :
            /\ trk_positions[k].start >= trk_positions[k-1].start
            /\ trk_positions[k].start >= trk_positions[k-1].end

\* an exact match after a gap, then a chunk the text does not hold
C15_Witness ==
    /\ trk_pc = "tracked"
    /\ Len(trk_positions) = 3
    /\ trk_positions[2].start > trk_positions[1].end
    /\ Find(trk_text, trk_chunks[3], 0) = 0 - 1
    /\ trk_positions[3].start = trk_positions[2].end

\* --------------------------------------------------------- cache, C16, C17
\* C16: the cache is keyed by (text, chunk_size, overlap_size, strategy)
\* alone: a cached request whose tuple an earlier request was served with,
\* and that no eviction can have removed, is a hit.
C16_SameTupleIsAHit ==
    ( /\ last_call.outcome \in {"hit", "miss"}
      /\ last_call.known
      /\ instances <= maxsize ) => last_call.outcome = "hit"

\* C17: the cache never holds more than maxsize entries, and an insertion
\* into a full cache removes the least recently used entry and no other.
C17_BoundedLruEviction ==
    /\ [](Len(lru) <= maxsize)
    /\ [][(Len(lru) = maxsize /\ lru' # lru) =>
             /\ Len(lru') = maxsize
             /\ SubSeq(lru', 1, maxsize - 1) = Tail(lru)]_vars

C17_Witness ==
    /\ Len(lru) = maxsize
    /\ lru[1][1] > 1
    /\ last_call.outcome = "miss"

\* ------------------------------------------------ repeated calls, C18..C20
\* C18: a split call with the text of the call before it, on the same
\* instance (so the same chunk_size, overlap_size and strategy), returns the
\* chunk sequence that call returned.
C18_SameCallSameResult ==
    (pc = "split_done" /\ round > 1 /\ text = prev_text) => result = prev_result

C18_Witness ==
    /\ variant = "utils"
    /\ strategy \in Strategies
    /\ pc = "split_done"
    /\ round = 3
    /\ text = prev_text
    /\ Len(result) >= 2
    /\ result = prev_result

\* C19: when split returned exactly one chunk no longer than chunk_size,
\* splitting that chunk with the same instance returns it unchanged.
C19_SingleChunkStable ==
    ( /\ pc = "split_done"
      /\ round = 2
      /\ Len(prev_result) = 1
      /\ text = prev_result[1]
      /\ Len(text) <= chunk_size ) => result = prev_result

C19_Witness ==
    /\ variant = "utils"
    /\ strategy = "paragraph"
    /\ pc = "split_done"
    /\ round = 2
    /\ Len(prev_result) = 1
    /\ text = prev_result[1]
    /\ Len(text) <= chunk_size
    /\ text # prev_text
    /\ Len(units) >= 2
    /\ result = prev_result

\* The request of the example and the chunks the specification expects.
IsExample ==
    /\ variant = "utils"
    /\ strategy = "paragraph"
    /\ <<chunk_size, overlap_size>> = ExampleConfig
    /\ text = ExampleText
    /\ round = 1
    /\ pc = "split_done"
ExampleChunks ==
    << << "P", "a", "r", "a", SP, "o", "n", "e", "." >>,
       << "P", "a", "r", "a", SP, "t", "w", "o", SP, "i", "s", SP, "a", SP,
         "b", "i", "t", SP, "l", "o", "n", "g", "e", "r", "." >>,
       << "P", "a", "r", "a", SP, "t", "h", "r", "e", "e", "." >> >>

\* C20: the example text with chunk_size 20, overlap_size 5 and the paragraph
\* strategy gives the three paragraphs as base chunks, and every record after
\* the first starts with the last 5 characters of the base chunk before it.
C20_ExampleSplit ==
    IsExample =>
        /\ chunks = ExampleChunks
        /\ Len(result) = Len(chunks)
        /\ \A i \in 2..Len(result) :
              SubSeq(result[i], 1, ExampleConfig[2]) =
                  SubSeq(chunks[i-1], Len(chunks[i-1]) - ExampleConfig[2] + 1,
                         Len(chunks[i-1]))

C20_Witness == IsExample /\ Len(result) = 3

\* ------------------------------------------------- tracker, C21 and C25
\* The cursor of chunk k: the end of the record before it, 0 for the first.
CursorAt(positions, k) == IF k = 1 THEN 0 ELSE positions[k-1].end

\* The 0-based offsets at or after cursor where chunk occurs in txt.
OccurrencesFrom(txt, chunk, cursor) ==
    {m \in cursor..(Len(txt) - Len(chunk)) :
        \A j \in 1..Len(chunk) : txt[m + j] = chunk[j]}

\* Chunk k of the input (txt, cks) is matched exactly, not approximated.
ExactAt(txt, cks, k) ==
    OccurrencesFrom(txt, cks[k], CursorAt(GetChunkPositions(txt, cks), k)) # {}

\* C21: an approximated record can be told from an exactly matched one: no
\* input whose chunk k is matched exactly gives chunk k the position record
\* that an input with an approximated chunk k gives it.
C21_FallbackDistinguishable ==
    trk_pc = "tracked" =>
        \A k \in 1..Len(trk_chunks) :
            ~ExactAt(trk_text, trk_chunks, k) =>
                \A t2 \in TrkTexts, c2 \in TrkChunkSeqs :
                    (Len(c2) >= k /\ ExactAt(t2, c2, k)) =>
                        GetChunkPositions(t2, c2)[k] # trk_positions[k]

\* C25: each chunk is searched from the cursor on; a match is recorded at
\* its first occurrence there, a miss at the cursor, each with the chunk's
\* length, and the end of the record is the next cursor.
C25_SearchFromCursor ==
    trk_pc = "tracked" =>
        /\ Len(trk_positions) = Len(trk_chunks)
        /\ \A k \in 1..Len(trk_chunks) :
              LET cursor == CursorAt(trk_positions, k)
                  occ == OccurrencesFrom(trk_text, trk_chunks[k], cursor)
                  rec == trk_positions[k]
              IN  /\ rec.end = rec.start + Len(trk_chunks[k])
                  /\ occ = {} => rec.start = cursor
                  /\ occ # {} => (rec.start \in occ /\ \A m \in occ : rec.start <= m)

\* a miss recorded at a cursor that is not 0, and a match that is neither at
\* the cursor nor the only one
C25_Witness ==
    /\ trk_pc = "tracked"
    /\ Len(trk_positions) = 3
    /\ Cardinality(OccurrencesFrom(trk_text, trk_chunks[2], trk_positions[1].end)) = 2
    /\ trk_positions[2].start > trk_positions[1].end
    /\ OccurrencesFrom(trk_text, trk_chunks[3], trk_positions[2].end) = {}
    /\ trk_positions[3].start = trk_positions[2].end

\* ------------------------------------------ assembler, C22, C23, C27, C28
RECURSIVE Flatten(_)
Flatten(lists) == IF lists = <<>> THEN <<>> ELSE Head(lists) \o Flatten(Tail(lists))

RECURSIVE SumUnitLen(_)
SumUnitLen(us) == IF us = <<>> THEN 0 ELSE Len(Head(us)) + SumUnitLen(Tail(us))

HoldsOversized(us) == \E j \in 1..Len(us) : Len(us[j]) > chunk_size

\* C22: an oversized unit is a chunk of its own, verbatim; the accumulation
\* pending before it was emitted first, the accumulation after it is empty
\* with running length 0, and the chunks follow the order of the units.
C22_OversizedUnitAlone ==
    pc \in {"loop", "split_done"} =>
        /\ Len(chunks) = Len(emitted)
        /\ \A i \in 1..Len(emitted) :
              HoldsOversized(emitted[i]) =>
                  (Len(emitted[i]) = 1 /\ chunks[i] = emitted[i][1])
        /\ ~HoldsOversized(current_chunk)
        /\ pc = "loop" =>
              /\ Flatten(emitted) \o current_chunk = SubSeq(units, 1, idx - 1)
              /\ (idx > 1 /\ Len(units[idx - 1]) > chunk_size) =>
                    (current_chunk = <<>> /\ current_length = 0)

\* a pending accumulation of two units was emitted before an oversized unit
C22_Witness ==
    /\ pc = "split_done"
    /\ Len(emitted) = 2
    /\ Len(emitted[1]) = 2
    /\ ~HoldsOversized(emitted[1])
    /\ HoldsOversized(emitted[2])
    /\ chunks[2] = units[3]

\* C23: a non-oversized unit that brings the running length to at most
\* chunk_size, exactly chunk_size included, is appended to the current chunk;
\* a new chunk is started only when the sum is strictly greater.
C23_BoundaryStaysInChunk ==
    [][(pc = "loop" /\ idx <= Len(units) /\ Len(units[idx]) <= chunk_size) =>
          /\ current_length + Len(units[idx]) <= chunk_size =>
                (current_chunk' = Append(current_chunk, units[idx]) /\ chunks' = chunks)
          /\ current_length + Len(units[idx]) > chunk_size =>
                (current_chunk' = <<units[idx]>> /\ Len(chunks') = Len(chunks) + 1)]_vars

\* a unit has filled the current chunk to exactly chunk_size
C23_Witness ==
    /\ variant = "utils"
    /\ pc = "loop"
    /\ Len(current_chunk) >= 2
    /\ current_length = chunk_size
    /\ SumUnitLen(current_chunk) = chunk_size

\* C27: a chunk that is not oversized is closed only when the next unit, if
\* not oversized, does not fit: the unit lengths of the chunk plus the length
\* of that unit exceed chunk_size.
C27_ClosesOnlyWhenFull ==
    pc = "split_done" =>
        \A i \in 1..(Len(emitted) - 1) :
            (~HoldsOversized(emitted[i]) /\ Len(emitted[i+1][1]) <= chunk_size) =>
                SumUnitLen(emitted[i]) + Len(emitted[i+1][1]) > chunk_size

C27_Witness ==
    /\ variant = "utils"
    /\ pc = "split_done"
    /\ Len(emitted) = 2
    /\ Len(emitted[1]) = 2
    /\ ~HoldsOversized(emitted[1])
    /\ ~HoldsOversized(emitted[2])
    /\ SumUnitLen(emitted[1]) = chunk_size

\* C28: the unit lists of the emitted chunks, concatenated in order, are the
\* input units; no chunk is empty; there are at most as many chunks as units.
C28_UnitsConserved ==
    pc = "split_done" =>
        /\ Flatten(emitted) = units
        /\ Len(chunks) = Len(emitted)
        /\ \A i \in 1..Len(emitted) :
              /\ emitted[i] # <<>>
              /\ chunks[i] = Join(emitted[i], Separator(variant))
        /\ Len(chunks) <= Len(units)

C28_Witness ==
    /\ pc = "split_done"
    /\ Len(units) = 3
    /\ Len(emitted) = 2
    /\ Len(emitted[2]) = 2
    /\ Flatten(emitted) = units
\* ---- the rules of the validator, each over the whole record sequence
PrevEnd(recs, k) == IF k = 1 THEN 0 ELSE recs[k - 1].end_position
HasOverlap(recs) ==
    \E k \in 1..Len(recs) : recs[k].start_position < PrevEnd(recs, k)
HasGap(recs) ==
    \E k \in 1..Len(recs) : recs[k].start_position > PrevEnd(recs, k)
HasMismatch(txt, recs) ==
    \E k \in 1..Len(recs) :
        PySlice(txt, recs[k].start_position, recs[k].end_position) # recs[k].text
RECURSIVE SumRecordBytes(_)
SumRecordBytes(recs) ==
    IF recs = <<>> THEN 0 ELSE Utf8Len(Head(recs).text) + SumRecordBytes(Tail(recs))
EarliestViolatedRule(txt, recs) ==
    IF HasOverlap(recs) THEN "overlap"
    ELSE IF HasGap(recs) THEN "gap"
    ELSE IF HasMismatch(txt, recs) THEN "mismatch"
    ELSE IF SumRecordBytes(recs) # Utf8Len(txt) THEN "coverage"
    ELSE "ok"

\* C24: the validator names the earliest violated rule in the order overlap,
\* gap, content mismatch, coverage, each rule taken over the whole record
\* sequence.
C24_EarliestRuleNamed ==
    trk_pc = "validated" =>
        trk_verdict = EarliestViolatedRule(trk_text,
                                           PlainRecords(trk_chunks, trk_positions))
\* rec is the join of the m chunks from index i on
IsJoinOf(rec, cks, positions, cs, i, m) ==
    /\ rec.text = JoinSeq(SubSeq(cks, i, i + m - 1), <<NL>>)
    /\ rec.start_position = positions[i].start
    /\ rec.end_position = positions[i + m - 1].end
    /\ m >= 2 => (Utf8Len(rec.text) <= cs /\ rec.size <= cs)

\* recs are joins of consecutive groups that partition the chunks from i on
RECURSIVE Regroups(_, _, _, _, _)
Regroups(recs, cks, positions, cs, i) ==
    IF recs = <<>> THEN i = Len(cks) + 1
    ELSE \E m \in 1..(Len(cks) - i + 1) :
            /\ IsJoinOf(Head(recs), cks, positions, cs, i, m)
            /\ Regroups(Tail(recs), cks, positions, cs, i + m)

\* C29: _join_small_chunks keeps every chunk once and in order; a joined
\* record's text is its chunks joined by single newlines, it starts where its
\* first chunk starts and ends where its last chunk ends, and a record of two
\* or more chunks is at most chunk_size bytes.
C29_JoinKeepsChunks ==
    trk_pc = "joined" =>
        Regroups(trk_joined, trk_chunks, trk_positions, trk_cs, 1)

C29_Witness ==
    /\ trk_pc = "joined"
    /\ Len(trk_chunks) = 3
    /\ Len(trk_joined) = 2
    /\ IsJoinOf(trk_joined[1], trk_chunks, trk_positions, trk_cs, 1, 2)
    /\ IsJoinOf(trk_joined[2], trk_chunks, trk_positions, trk_cs, 3, 1)
    /\ trk_positions[2].end # trk_positions[3].end
\* the units occur in txt one after the other, from cursor on
RECURSIVE OccursInOrder(_, _, _)
OccursInOrder(us, txt, cursor) ==
    \/ us = <<>>
    \/ /\ Find(txt, Head(us), cursor) # 0 - 1
       /\ OccursInOrder(Tail(us), txt, Find(txt, Head(us), cursor) + Len(Head(us)))

\* C26: every unit the segmenter hands to the assembler is non-empty and not
\* all-whitespace, and the units keep the order they have in the text, for
\* every strategy, text and variant.
C26_UnitsNonBlankInOrder ==
    (mode = "text" /\ pc = "loop" /\ strategy \in Strategies) =>
        /\ \A k \in 1..Len(units) : NonBlank(units[k])
        /\ OccursInOrder(units, text, 0)
\* C30: a /convert request rejected by the content-type check or by the
\* file-size check is answered with status 400.
C30_RejectionAnswered400 ==
    (/\ dx_pc = "answered"
     /\ \E k \in 1..Len(dx_errors) :
            dx_errors[k] \in {"InvalidContentType", "FileSizeExceeded"})
        => dx_status = 400
====
